---- MODULE Spec2Model ----
(***************************************************************************)
(* Model of the travel image picker: the record store update               *)
(* (updateCsvWithFilename), the page loader (loadLocations), the image     *)
(* picker component (ImagePicker: effects, loadUnique, handlers) and the   *)
(* server action (downloadImageAndUpdateCsv).                              *)
(*                                                                         *)
(* Text is modelled as a sequence of one-character strings, so that trim,  *)
(* split, join and case conversion are computed and not assumed.           *)
(***************************************************************************)
EXTENDS Integers, Sequences, FiniteSets, TLC

VARIABLES
    csv,            \* file.csv: the sequence of its lines (text split at newlines)
    calls,          \* record-store calls made so far: <<[city, country, filename, before]>>
    locations,      \* ImagePicker props.locations
    locationIndex,  \* useState(0)
    images,         \* useState([]): the candidate batch (ids)
    loading,        \* useState(false)
    selectedImage,  \* useState(null): 0 stands for null
    refreshing,     \* useState(false)
    pageNum,        \* useState(1)
    seenIdsRef,     \* useRef(new Set())
    source,         \* useState("pixabay")
    startLetter,    \* useState(null): <<>> stands for null
    actionState,    \* useActionState: [status, filename]
    isPending,      \* useActionState: a server action is in flight
    pendingForm,    \* the FormData of the server action in flight
    gather,         \* the loadUnique call of the latest effect run, or NoGather
    stale,          \* loadUnique calls whose effect was cleaned up and that still run
    lastDone,       \* history: how the last loadUnique call ended: kind, start page, pages read
    shown,          \* history: ids of the batches applied since the last reset
    ops,            \* history: number of operator actions so far
    search          \* the last call of the search endpoint: request, environment,
                    \* provider outcome and result; NoSearch before the first

vars == <<csv, calls, locations, locationIndex, images, loading, selectedImage,
          refreshing, pageNum, seenIdsRef, source, startLetter, actionState,
          isPending, pendingForm, gather, stale, lastDone, shown, ops, search>>

storeVars == <<csv, calls>>

pickerVars == <<locations, locationIndex, images, loading, selectedImage,
                refreshing, pageNum, seenIdsRef, source, startLetter,
                actionState, isPending, pendingForm, gather, stale, lastDone,
                shown, ops, search>>

-----------------------------------------------------------------------------
(* Bounds *)

MaxRows == 2        \* data lines of a table of the record-store specification
MaxCalls == 2       \* record-store calls in one behaviour of that specification
MaxLocs == 2        \* data lines of file.csv when the picker is opened
MaxId == 10         \* provider result ids are 1..MaxId
MaxOps == 2         \* operator actions (skip, show more, provider, letter, pick) in a session
MaxStale == 1       \* superseded loadUnique calls still running
MaxPickPos == 1     \* the operator picks among the first MaxPickPos candidates

-----------------------------------------------------------------------------
(* Program constants *)

TargetCount == 6    \* while (collected.length < 6 ...
MaxAttempts == 5    \* ... && attempts < 5)
PerPage == 18       \* per_page
Sources == { "pixabay", "unsplash", "pexels" }

-----------------------------------------------------------------------------
(* Text *)

SP == " "
COMMA == ","

IsSpace(c) == c = SP

RECURSIVE TrimStart(_)
TrimStart(s) ==
    IF s = <<>> THEN <<>>
    ELSE IF IsSpace(Head(s)) THEN TrimStart(Tail(s)) ELSE s

RECURSIVE TrimEnd(_)
TrimEnd(s) ==
    IF s = <<>> THEN <<>>
    ELSE IF IsSpace(s[Len(s)]) THEN TrimEnd(SubSeq(s, 1, Len(s) - 1)) ELSE s

\* String.prototype.trim
Trim(s) == TrimEnd(TrimStart(s))

UpperCase == <<"A", "B", "C", "D", "E", "F", "G", "H", "I", "J", "K", "L", "M",
               "N", "O", "P", "Q", "R", "S", "T", "U", "V", "W", "X", "Y", "Z">>
LowerCase == <<"a", "b", "c", "d", "e", "f", "g", "h", "i", "j", "k", "l", "m",
               "n", "o", "p", "q", "r", "s", "t", "u", "v", "w", "x", "y", "z">>

Letters == { UpperCase[i] : i \in 1..26 } \cup { LowerCase[i] : i \in 1..26 }

ToLowerTable ==
    [c \in Letters |->
        IF \E i \in 1..26 : UpperCase[i] = c
        THEN LowerCase[CHOOSE i \in 1..26 : UpperCase[i] = c]
        ELSE c]

ToUpperTable ==
    [c \in Letters |->
        IF \E i \in 1..26 : LowerCase[i] = c
        THEN UpperCase[CHOOSE i \in 1..26 : LowerCase[i] = c]
        ELSE c]

LowerChar(c) == IF c \in Letters THEN ToLowerTable[c] ELSE c

UpperChar(c) == IF c \in Letters THEN ToUpperTable[c] ELSE c

\* String.prototype.toLowerCase / toUpperCase
ToLower(s) == [i \in 1..Len(s) |-> LowerChar(s[i])]
ToUpper(s) == [i \in 1..Len(s) |-> UpperChar(s[i])]

\* Array.prototype.indexOf, 1-based; 0 stands for -1
IndexOf(seq, x) ==
    IF \E i \in 1..Len(seq) : seq[i] = x
    THEN CHOOSE i \in 1..Len(seq) : seq[i] = x /\ \A j \in 1..(i - 1) : seq[j] # x
    ELSE 0

\* line.split(',')
RECURSIVE SplitFrom(_, _, _)
SplitFrom(s, i, cur) ==
    IF i > Len(s) THEN <<cur>>
    ELSE IF s[i] = COMMA THEN <<cur>> \o SplitFrom(s, i + 1, <<>>)
    ELSE SplitFrom(s, i + 1, Append(cur, s[i]))

parseCsvLine(line) == SplitFrom(line, 1, <<>>)

\* fields.join(',')
RECURSIVE stringifyCsvLine(_)
stringifyCsvLine(fields) ==
    IF fields = <<>> THEN <<>>
    ELSE IF Len(fields) = 1 THEN fields[1]
    ELSE fields[1] \o <<COMMA>> \o stringifyCsvLine(Tail(fields))

\* while (fields.length < n) fields.push('')
PadFields(fields, n) ==
    IF Len(fields) >= n THEN fields
    ELSE fields \o [i \in 1..(n - Len(fields)) |-> <<>>]

\* !raw || raw.trim() === ''
IsBlank(raw) == Trim(raw) = <<>>

CITY == <<"c", "i", "t", "y">>
COUNTRY == <<"c", "o", "u", "n", "t", "r", "y">>
TYPE == <<"t", "y", "p", "e">>
FILENAME == <<"f", "i", "l", "e", "n", "a", "m", "e">>

-----------------------------------------------------------------------------
(* Record store: updateCsvWithFilename *)

\* header.map((h) => h.trim().toLowerCase())
NormalizedHeader(header) == [i \in 1..Len(header) |-> ToLower(Trim(header[i]))]

\* The header after "Header handling" and the 1-based index of its filename column.
HeaderOut(header0) ==
    IF IndexOf(NormalizedHeader(header0), FILENAME) = 0
    THEN Append(header0, FILENAME)
    ELSE header0

FilenameIndex(header0) ==
    IF IndexOf(NormalizedHeader(header0), FILENAME) = 0
    THEN Len(header0) + 1
    ELSE IndexOf(NormalizedHeader(header0), FILENAME)

\* The row test of the scan loop: fields[0].trim() === city && fields[1].trim() === country.
RowMatches(fields, city, country) ==
    Trim(fields[1]) = city /\ Trim(fields[2]) = country

\* !fields[filenameIndex] || fields[filenameIndex].trim() === ''
FieldEmpty(fields, fi) == Trim(fields[fi]) = <<>>

\* Variant of ScanRows that writes the first matching row, empty or not.
RECURSIVE ScanRowsFirstMatch(_, _, _, _, _, _, _, _)
ScanRowsFirstMatch(lines, n, fi, city, country, filename, i, updatedIndex) ==
    IF i > Len(lines)
    THEN [lines |-> lines, updated |-> FALSE, updatedIndex |-> updatedIndex,
          threw |-> FALSE]
    ELSE IF IsBlank(lines[i])
    THEN ScanRowsFirstMatch(lines, n, fi, city, country, filename, i + 1, updatedIndex)
    ELSE LET fields == PadFields(parseCsvLine(lines[i]), n) IN
         IF Len(fields) < 2
         THEN [lines |-> lines, updated |-> FALSE, updatedIndex |-> updatedIndex,
               threw |-> TRUE]
         ELSE IF RowMatches(fields, city, country)
         THEN [lines |-> [lines EXCEPT ![i] =
                             stringifyCsvLine([fields EXCEPT ![fi] = filename])],
               updated |-> TRUE, updatedIndex |-> i, threw |-> FALSE]
         ELSE ScanRowsFirstMatch(lines, n, fi, city, country, filename, i + 1,
                                 updatedIndex)

\* The for loop over the data lines, from line i on, with updatedIndex (0 for null).
\* Result: [lines, updated, updatedIndex, threw].
RECURSIVE ScanRows(_, _, _, _, _, _, _, _)
ScanRows(lines, n, fi, city, country, filename, i, updatedIndex) ==
    IF i > Len(lines)
    THEN [lines |-> lines, updated |-> FALSE, updatedIndex |-> updatedIndex,
          threw |-> FALSE]
    ELSE IF IsBlank(lines[i])
    THEN ScanRows(lines, n, fi, city, country, filename, i + 1, updatedIndex)
    ELSE LET fields == PadFields(parseCsvLine(lines[i]), n) IN
         IF Len(fields) < 2
         THEN [lines |-> lines, updated |-> FALSE, updatedIndex |-> updatedIndex,
               threw |-> TRUE]      \* fields[1] is undefined: TypeError
         ELSE IF RowMatches(fields, city, country)
         THEN IF FieldEmpty(fields, fi)
              THEN [lines |-> [lines EXCEPT ![i] =
                                  stringifyCsvLine([fields EXCEPT ![fi] = filename])],
                    updated |-> TRUE, updatedIndex |-> i, threw |-> FALSE]
              ELSE ScanRows(lines, n, fi, city, country, filename, i + 1,
                            IF updatedIndex = 0 THEN i ELSE updatedIndex)
         ELSE ScanRows(lines, n, fi, city, country, filename, i + 1, updatedIndex)

\* The appended row: newRow[0..2], padding, newRow[filenameIndex] = filename.
NewRow(n, fi, city, country, filename) ==
    [PadFields(<<city, country, <<>>>>, n) EXCEPT ![fi] = filename]

\* Variant of updateCsvWithFilename without the overwrite path: when no matching
\* row has an empty filename, a new row is appended.
updateCsvAppendWhenFilled(lines0, city, country, filename) ==
    LET header0 == parseCsvLine(lines0[1])
        header == HeaderOut(header0)
        fi == FilenameIndex(header0)
        n == Len(header)
        scan == ScanRows(lines0, n, fi, city, country, filename, 2, 0)
        lines1 ==
            IF scan.updated THEN scan.lines
            ELSE Append(lines0, stringifyCsvLine(NewRow(n, fi, city, country, filename)))
    IN  IF scan.threw
        THEN [threw |-> TRUE, lines |-> lines0]
        ELSE [threw |-> FALSE,
              lines |-> [lines1 EXCEPT ![1] = stringifyCsvLine(header)]]

\* updateCsvWithFilename: [threw, lines], lines being the file as written.
updateCsvWithFilename(lines0, city, country, filename) ==
    LET header0 == parseCsvLine(lines0[1])
        header == HeaderOut(header0)
        fi == FilenameIndex(header0)
        n == Len(header)
        scan == ScanRows(lines0, n, fi, city, country, filename, 2, 0)
        lines1 ==
            IF scan.updated THEN scan.lines
            ELSE IF scan.updatedIndex # 0
            THEN [lines0 EXCEPT ![scan.updatedIndex] =
                    stringifyCsvLine(
                        [PadFields(parseCsvLine(lines0[scan.updatedIndex]), n)
                            EXCEPT ![fi] = filename])]
            ELSE Append(lines0, stringifyCsvLine(NewRow(n, fi, city, country, filename)))
    IN  IF scan.threw
        THEN [threw |-> TRUE, lines |-> lines0]
        ELSE [threw |-> FALSE,
              lines |-> [lines1 EXCEPT ![1] = stringifyCsvLine(header)]]

-----------------------------------------------------------------------------
(* Page loader: loadLocations and Home *)

\* fields[idx] ? String(fields[idx]).trim() : ''   (idx 0 stands for -1)
FieldAt(fields, idx) ==
    IF idx >= 1 /\ idx <= Len(fields) THEN Trim(fields[idx]) ELSE <<>>

\* One data line as a LocationRow; filename <<>> also stands for undefined.
RowOf(header, line) ==
    LET fields == parseCsvLine(line) IN
    [city |-> FieldAt(fields, IndexOf(header, CITY)),
     country |-> FieldAt(fields, IndexOf(header, COUNTRY)),
     filename |-> FieldAt(fields, IndexOf(header, FILENAME))]

RECURSIVE LoadRows(_, _, _)
LoadRows(header, lines, i) ==
    IF i > Len(lines) THEN <<>>
    ELSE IF IsBlank(lines[i]) THEN LoadRows(header, lines, i + 1)
    ELSE LET row == RowOf(header, lines[i]) IN
         IF row.city = <<>> \/ row.country = <<>>
         THEN LoadRows(header, lines, i + 1)
         ELSE <<row>> \o LoadRows(header, lines, i + 1)

loadLocations(lines) ==
    IF Len(lines) <= 1 THEN <<>>
    ELSE LoadRows(NormalizedHeader(parseCsvLine(lines[1])), lines, 2)

\* Home: locations.filter((l) => !l.filename)
Incomplete(rows) ==
    LET NoFilename(l) == l.filename = <<>> IN SelectSeq(rows, NoFilename)

-----------------------------------------------------------------------------
(* Record-store specification: tables and calls drawn from bounded sets *)

CityP == <<"P">>
CityQ == <<"Q">>
CountryF == <<"F">>
FileA == <<"a">>
FileB == <<"b">>

StoreHeaders ==
    { <<CITY, COUNTRY, TYPE, FILENAME>>,
      <<CITY, COUNTRY>>,
      <<<<"C", "i", "t", "y">>, COUNTRY, <<SP>> \o ToUpper(FILENAME)>>,
      <<COUNTRY, CITY, FILENAME>> }

\* Data lines: short, empty filename, filled, untrimmed, other key, with a type
\* column, country first.
StoreRowFields ==
    { <<CityP, CountryF>>,
      <<CityP, CountryF, <<>>>>,
      <<CityP, CountryF, FileA>>,
      <<<<SP>> \o CityP, CountryF, <<SP>>>>,
      <<CityQ, CountryF, FileA>>,
      <<CityP, CountryF, <<>>, FileA>>,
      <<CountryF, CityP, <<>>>> }

StoreLines == { stringifyCsvLine(f) : f \in StoreRowFields } \cup { <<>> }

RECURSIVE SeqsUpTo(_, _)
SeqsUpTo(S, n) ==
    IF n = 0 THEN { <<>> }
    ELSE LET shorter == SeqsUpTo(S, n - 1) IN
         shorter \cup { Append(q, x) : q \in { r \in shorter : Len(r) = n - 1 }, x \in S }

StoreTables ==
    { <<stringifyCsvLine(h)>> \o rows : h \in StoreHeaders, rows \in SeqsUpTo(StoreLines, MaxRows) }

StoreKeys == { <<CityP, CountryF>> }
StoreFilenames == { FileA, FileB }

\* ActionState values
Idle == [status |-> "idle", message |-> "", filename |-> <<>>]
ErrorState(msg) == [status |-> "error", message |-> msg, filename |-> <<>>]
SuccessState(filename) ==
    [status |-> "success", message |-> "Downloaded and CSV updated",
     filename |-> filename]

NoGather == [active |-> FALSE]
NoForm == [set |-> FALSE]
NoDone == [kind |-> "none", start |-> 0, pages |-> 0]
NoSearch == [called |-> FALSE]

\* The component as constructed: every useState / useRef initial value.
PickerInit ==
    /\ locationIndex = 0
    /\ images = <<>>
    /\ loading = FALSE
    /\ selectedImage = 0
    /\ refreshing = FALSE
    /\ pageNum = 1
    /\ seenIdsRef = {}
    /\ source = "pixabay"
    /\ startLetter = <<>>
    /\ actionState = Idle
    /\ isPending = FALSE
    /\ pendingForm = NoForm
    /\ gather = NoGather
    /\ stale = <<>>
    /\ lastDone = NoDone
    /\ shown = {}
    /\ ops = 0
    /\ search = NoSearch

InitStore ==
    /\ csv \in StoreTables
    /\ calls = <<>>
    /\ locations = <<>>
    /\ PickerInit

\* One call of updateCsvWithFilename on the file; a throw leaves the file as it was.
StoreUpdate(city, country, filename) ==
    /\ Len(calls) < MaxCalls
    /\ LET r == updateCsvWithFilename(csv, city, country, filename) IN
       /\ csv' = r.lines
       /\ calls' = Append(calls, [city |-> city, country |-> country,
                                  filename |-> filename, before |-> csv,
                                  threw |-> r.threw])
    /\ UNCHANGED pickerVars

NextStore ==
    \E k \in StoreKeys, f \in StoreFilenames : StoreUpdate(k[1], k[2], f)

SpecStore == InitStore /\ [][NextStore]_vars

-----------------------------------------------------------------------------
(* Record-store properties *)

\* The table a call left: the table before the next call, or the current file.
TableAfter(j) == IF j < Len(calls) THEN calls[j + 1].before ELSE csv

TableFi(t) == FilenameIndex(parseCsvLine(t[1]))
TableWidth(t) == Len(HeaderOut(parseCsvLine(t[1])))
Cells(t, i) == PadFields(parseCsvLine(t[i]), TableWidth(t))

\* Rows matching a key: the first two fields, trimmed, equal city and country.
Matching(t, city, country) ==
    LET w == TableWidth(t) IN
    { i \in 2..Len(t) :
        /\ ~IsBlank(t[i])
        /\ LET cells == PadFields(parseCsvLine(t[i]), w) IN
           /\ Trim(cells[1]) = city
           /\ Trim(cells[2]) = country }

EmptyMatching(t, city, country) ==
    LET w == TableWidth(t)
        fi == TableFi(t)
    IN  { i \in Matching(t, city, country) :
            Trim(PadFields(parseCsvLine(t[i]), w)[fi]) = <<>> }

MinOf(S) == CHOOSE x \in S : \A y \in S : x <= y

\* The row a call is to write: first empty match, else first match, else a new last row.
TargetRow(t, city, country) ==
    IF EmptyMatching(t, city, country) # {} THEN MinOf(EmptyMatching(t, city, country))
    ELSE IF Matching(t, city, country) # {} THEN MinOf(Matching(t, city, country))
    ELSE Len(t) + 1

\* Two successive calls with the same key: the second one writes the row the
\* first one wrote, adds no row, changes no other line, and with the same
\* filename leaves the table as it was.
SecondCallSameRow(j) ==
    LET t0 == calls[j].before
        t1 == TableAfter(j)
        t2 == TableAfter(j + 1)
        r == TargetRow(t0, calls[j].city, calls[j].country)
    IN  /\ Len(t2) = Len(t1)
        /\ r <= Len(t2)
        /\ \A i \in 1..Len(t2) : i # r => t2[i] = t1[i]
        /\ parseCsvLine(t2[r])[TableFi(t1)] = calls[j + 1].filename
        /\ calls[j].filename = calls[j + 1].filename => t2 = t1

SameKeyPairs ==
    { j \in 1..(Len(calls) - 1) :
        /\ calls[j].city = calls[j + 1].city
        /\ calls[j].country = calls[j + 1].country }

\* C9 as stated: for every table and key, also with several rows sharing the
\* key, the second of two updates with the same key rewrites the row the first
\* one wrote, adds no row and changes no other row; with the same filename it
\* leaves the table unchanged.
C9_UpdateTwiceIdempotent == \A j \in SameKeyPairs : SecondCallSameRow(j)

\* At most the first matching row has an empty filename, and the filename
\* column is not one of the two key columns.
OnlyFirstMatchEmpty(t, city, country) ==
    /\ TableFi(t) > 2
    /\ \A i \in EmptyMatching(t, city, country) : i = MinOf(Matching(t, city, country))

\* C9 amended: when the filename column is not one of the first two columns
\* and no matching row other than the first matching one has an empty filename
\* (in particular when the key is unique), the second of two updates with the
\* same key rewrites the row the first one wrote, adds no row and changes no
\* other row; with the same filename it leaves the table unchanged.
C9_UpdateTwiceIdempotentUniqueEmpty ==
    \A j \in SameKeyPairs :
        OnlyFirstMatchEmpty(calls[j].before, calls[j].city, calls[j].country)
            => SecondCallSameRow(j)

\* Two updates with the same key and different filenames were applied to a
\* table in which two rows share the key, the first of them with an empty filename.
C9_Witness ==
    \E j \in SameKeyPairs :
        LET t0 == calls[j].before
            c == calls[j].city
            k == calls[j].country
        IN  /\ OnlyFirstMatchEmpty(t0, c, k)
            /\ Cardinality(Matching(t0, c, k)) >= 2
            /\ EmptyMatching(t0, c, k) # {}
            /\ calls[j].filename # calls[j + 1].filename

-----------------------------------------------------------------------------
(* Server action: toSlug, getFileExtensionFromUrl, downloadImageAndUpdateCsv *)

Digits == { "0", "1", "2", "3", "4", "5", "6", "7", "8", "9" }
HYPHEN == "-"
UNDERSCORE == "_"
DOT == "."
SLASH == "/"
QUESTION == "?"
TILDE == "~"        \* stands for the combining tilde U+0303
ATILDE == "ã"
TRADEMARK == "(tm)" \* stands for the trade mark sign U+2122: it has no lower
                    \* case, and its compatibility decomposition is "TM"

\* normalize('NFKD') of one character
Nfkd(c) ==
    IF c = ATILDE THEN <<"a", TILDE>>
    ELSE IF c = TRADEMARK THEN <<"T", "M">>
    ELSE <<c>>

RECURSIVE Normalize(_)
Normalize(s) == IF s = <<>> THEN <<>> ELSE Nfkd(Head(s)) \o Normalize(Tail(s))

\* \w
IsWord(c) == c \in Letters \/ c \in Digits \/ c = UNDERSCORE

\* replace(/[^\w\s-]/g, '')
StripNonWord(s) ==
    LET Keep(c) == IsWord(c) \/ IsSpace(c) \/ c = HYPHEN IN SelectSeq(s, Keep)

\* replace(/[\s_]+/g, '-')
RECURSIVE Hyphenate(_, _)
Hyphenate(s, inRun) ==
    IF s = <<>> THEN <<>>
    ELSE IF IsSpace(Head(s)) \/ Head(s) = UNDERSCORE
    THEN (IF inRun THEN <<>> ELSE <<HYPHEN>>) \o Hyphenate(Tail(s), TRUE)
    ELSE <<Head(s)>> \o Hyphenate(Tail(s), FALSE)

toSlug(input) == Hyphenate(Trim(StripNonWord(Normalize(ToLower(input)))), FALSE)

\* str.split(sep) for a one-character separator
RECURSIVE SplitOn(_, _, _, _)
SplitOn(s, sep, i, cur) ==
    IF i > Len(s) THEN <<cur>>
    ELSE IF s[i] = sep THEN <<cur>> \o SplitOn(s, sep, i + 1, <<>>)
    ELSE SplitOn(s, sep, i + 1, Append(cur, s[i]))

JPG == <<"j", "p", "g">>

\* getFileExtensionFromUrl, applied to the pathname of a URL that parses
getFileExtensionFromUrl(pathname) ==
    LET segments == SplitOn(pathname, SLASH, 1, <<>>)
        lastSegment == segments[Len(segments)]
        clean == SplitOn(lastSegment, QUESTION, 1, <<>>)[1]
        parts == SplitOn(clean, DOT, 1, <<>>)
    IN  IF Len(parts) > 1 THEN ToLower(parts[Len(parts)]) ELSE JPG

\* String(img.id)
IdText(id) == <<ToString(id)>>

\* img.largeImageURL || img.webformatURL: the pathname of the image URL of a hit
ImagePath(id) == <<SLASH>> \o IdText(id) \o <<DOT>> \o ToUpper(JPG)

\* imageIdRaw.replace(/[^a-zA-Z0-9_-]/g, '')
SafeId(raw) ==
    LET Keep(c) == IsWord(c) \/ c = HYPHEN IN SelectSeq(raw, Keep)

BaseName(city, country, safeId) ==
    toSlug(city) \o <<HYPHEN>> \o toSlug(country) \o <<HYPHEN>> \o safeId

\* Variant of downloadImageAndUpdateCsv that tests the fields after the download.
downloadImageAndUpdateCsvLateChecks(form, lines, download, store) ==
    LET city == Trim(form.city)
        country == Trim(form.country)
        imageUrl == Trim(form.imageUrl)
        imageIdRaw == Trim(form.imageId)
        safeId == SafeId(imageIdRaw)
        filename == BaseName(city, country, safeId) \o <<DOT>>
                        \o getFileExtensionFromUrl(imageUrl)
        written == updateCsvWithFilename(lines, city, country, filename)
    IN  IF download = "fail"
        THEN [state |-> ErrorState("Failed to download image"), lines |-> lines,
              io |-> <<"mkdir", "fetch">>]
        ELSE IF city = <<>> \/ country = <<>> \/ imageUrl = <<>> \/ imageIdRaw = <<>>
        THEN [state |-> ErrorState("Missing required fields"), lines |-> lines,
              io |-> <<"mkdir", "fetch", "writeImage">>]
        ELSE IF safeId = <<>>
        THEN [state |-> ErrorState("Invalid image id"), lines |-> lines,
              io |-> <<"mkdir", "fetch", "writeImage">>]
        ELSE IF store = "fail" \/ written.threw
        THEN [state |-> ErrorState("Store error"), lines |-> lines,
              io |-> <<"mkdir", "fetch", "writeImage", "readCsv">>]
        ELSE [state |-> SuccessState(filename), lines |-> written.lines,
              io |-> <<"mkdir", "fetch", "writeImage", "readCsv", "writeCsv">>]

\* Variant of downloadImageAndUpdateCsv that updates the file before it downloads
\* the image.
downloadImageAndUpdateCsvStoreFirst(form, lines, download, store) ==
    LET city == Trim(form.city)
        country == Trim(form.country)
        imageUrl == Trim(form.imageUrl)
        imageIdRaw == Trim(form.imageId)
        safeId == SafeId(imageIdRaw)
        filename == BaseName(city, country, safeId) \o <<DOT>>
                        \o getFileExtensionFromUrl(imageUrl)
        written == updateCsvWithFilename(lines, city, country, filename)
    IN  IF city = <<>> \/ country = <<>> \/ imageUrl = <<>> \/ imageIdRaw = <<>>
        THEN [state |-> ErrorState("Missing required fields"), lines |-> lines,
              io |-> <<>>]
        ELSE IF safeId = <<>>
        THEN [state |-> ErrorState("Invalid image id"), lines |-> lines, io |-> <<>>]
        ELSE IF store = "fail" \/ written.threw
        THEN [state |-> ErrorState("Store error"), lines |-> lines,
              io |-> <<"readCsv">>]
        ELSE IF download = "fail"
        THEN [state |-> ErrorState("Failed to download image"),
              lines |-> written.lines,
              io |-> <<"readCsv", "writeCsv", "mkdir", "fetch">>]
        ELSE [state |-> SuccessState(filename), lines |-> written.lines,
              io |-> <<"readCsv", "writeCsv", "mkdir", "fetch", "writeImage">>]

\* downloadImageAndUpdateCsv: [state, lines, io]; download and store are the
\* outcomes of the image request and of the file accesses ("ok" or "fail"), io
\* lists the network and file accesses made, in order.
downloadImageAndUpdateCsv(form, lines, download, store) ==
    LET city == Trim(form.city)
        country == Trim(form.country)
        imageUrl == Trim(form.imageUrl)
        imageIdRaw == Trim(form.imageId)
        safeId == SafeId(imageIdRaw)
        filename == BaseName(city, country, safeId) \o <<DOT>>
                        \o getFileExtensionFromUrl(imageUrl)
        written == updateCsvWithFilename(lines, city, country, filename)
    IN  IF city = <<>> \/ country = <<>> \/ imageUrl = <<>> \/ imageIdRaw = <<>>
        THEN [state |-> ErrorState("Missing required fields"), lines |-> lines,
              io |-> <<>>]
        ELSE IF safeId = <<>>
        THEN [state |-> ErrorState("Invalid image id"), lines |-> lines, io |-> <<>>]
        ELSE IF download = "fail"
        THEN [state |-> ErrorState("Failed to download image"), lines |-> lines,
              io |-> <<"mkdir", "fetch">>]
        ELSE IF store = "fail" \/ written.threw
        THEN [state |-> ErrorState("Store error"), lines |-> lines,
              io |-> <<"mkdir", "fetch", "writeImage", "readCsv">>]
        ELSE [state |-> SuccessState(filename), lines |-> written.lines,
              io |-> <<"mkdir", "fetch", "writeImage", "readCsv", "writeCsv">>]

-----------------------------------------------------------------------------
(* ImagePicker: derived values *)

\* Variant of FilteredLocations that compares the country as written.
FilteredLocationsCaseSensitive(locs, letter) ==
    IF letter = <<>> THEN locs
    ELSE LET StartsWith(l) ==
                LET c == Trim(l.country) IN
                /\ Len(c) >= Len(ToUpper(letter))
                /\ SubSeq(c, 1, Len(ToUpper(letter))) = ToUpper(letter)
         IN  SelectSeq(locs, StartsWith)

\* filteredLocations
FilteredLocations(locs, letter) ==
    IF letter = <<>> THEN locs
    ELSE LET StartsWith(l) ==
                LET c == ToUpper(Trim(l.country)) IN
                /\ Len(c) >= Len(ToUpper(letter))
                /\ SubSeq(c, 1, Len(ToUpper(letter))) = ToUpper(letter)
         IN  SelectSeq(locs, StartsWith)

\* availableLetters
AvailableLetters(locs) ==
    { <<UpperChar(Trim(locs[i].country)[1])>> :
        i \in { j \in 1..Len(locs) : Trim(locs[j].country) # <<>> } }

\* isDone = !selectedLocation, for a location index and filter
IsDoneAt(locs, letter, index) == index + 1 > Len(FilteredLocations(locs, letter))

\* query; <<>> stands for ""
QueryAt(locs, letter, index) ==
    IF IsDoneAt(locs, letter, index) THEN <<>>
    ELSE LET l == FilteredLocations(locs, letter)[index + 1] IN
         Trim(l.city \o <<SP>> \o l.country)

\* Variant of ScreenAt that tests isDone alone first.
ScreenAtDoneFirst(locs, letter, index) ==
    IF IsDoneAt(locs, letter, index) THEN "allComplete"
    ELSE IF Len(locs) > 0 /\ Len(FilteredLocations(locs, letter)) = 0 THEN "noMatch"
    ELSE "picker"

\* What ImagePicker returns: the "No countries match this letter" screen, the
\* "All locations are complete" screen, or the picker.
ScreenAt(locs, letter, index) ==
    IF /\ IsDoneAt(locs, letter, index)
       /\ Len(locs) > 0
       /\ Len(FilteredLocations(locs, letter)) = 0
    THEN "noMatch"
    ELSE IF IsDoneAt(locs, letter, index) THEN "allComplete"
    ELSE "picker"

isDone == IsDoneAt(locations, startLetter, locationIndex)
selectedLocation == FilteredLocations(locations, startLetter)[locationIndex + 1]
query == QueryAt(locations, startLetter, locationIndex)
screen == ScreenAt(locations, startLetter, locationIndex)

-----------------------------------------------------------------------------
(* Search endpoint: GET /api/search *)

\* What a provider finds for one page: the ids of its results.
RunOf(lo, hi) == [i \in 1..(hi - lo + 1) |-> lo + i - 1]
EmptyPage == <<>>
ShortPage == <<1, 2, 2, 3>>
LongPage == RunOf(3, MaxId)
Pages == { h \in { EmptyPage, ShortPage, LongPage } : Len(h) <= PerPage }

\* The outcome of the outbound request: a success status with a body, a
\* non-success status, or a rejected fetch / unreadable body.
ProviderOutcomes ==
    { [kind |-> "ok", hits |-> h] : h \in Pages }
        \cup { [kind |-> "status", hits |-> <<>>], [kind |-> "throws", hits |-> <<>>] }

PIXABAY == <<"p", "i", "x", "a", "b", "a", "y">>
UNSPLASH == <<"u", "n", "s", "p", "l", "a", "s", "h">>
PEXELS == <<"p", "e", "x", "e", "l", "s">>

\* 'london united kingdom'
DefaultQuery ==
    <<"l", "o", "n", "d", "o", "n", SP, "u", "n", "i", "t", "e", "d", SP,
      "k", "i", "n", "g", "d", "o", "m">>

\* `destination+${q}`
Destination(q) == <<"d", "e", "s", "t", "i", "n", "a", "t", "i", "o", "n", "+">> \o q

\* process.env: a credential, or NoKey when the variable is unset or empty
NoKey == <<>>
EnvKey == <<"k">>
PixabayFallbackKey == <<"5">>      \* '52178983-...'
Envs ==
    [UNSPLASH_ACCESS_KEY : { NoKey, EnvKey }, PEXELS_API_KEY : { NoKey, EnvKey },
     PIXABAY_KEY : { NoKey, EnvKey }]

\* a || b on texts and on numbers (0 stands for an absent parameter)
OrText(a, b) == IF a = <<>> THEN b ELSE a
OrNumber(a, b) == IF a = 0 THEN b ELSE a
Min(a, b) == IF a <= b THEN a ELSE b
Max(a, b) == IF a >= b THEN a ELSE b

\* NextResponse.json(...): what the endpoint answers, with the outbound requests
\* it made.
JsonError(status, message, outbound) ==
    [ok |-> FALSE, status |-> status, error |-> message, hits |-> <<>>,
     outbound |-> outbound]
JsonHits(hits, outbound) ==
    [ok |-> TRUE, status |-> 200, error |-> "", hits |-> hits, outbound |-> outbound]

\* The provider branch after its credential test: one outbound request, then the
\* answer by its outcome; a throw is caught by the handler's catch.
FetchProvider(provider, key, providerQuery, page, perPage, outcome, failed) ==
    LET outbound == << [provider |-> provider, key |-> key, query |-> providerQuery,
                        page |-> page, perPage |-> perPage] >>
    IN  IF outcome.kind = "throws" THEN JsonError(500, "Unexpected error", outbound)
        ELSE IF outcome.kind = "status" THEN JsonError(502, failed, outbound)
        ELSE JsonHits(outcome.hits, outbound)

\* Variant of GET in which a rejected provider request is answered as an
\* upstream failure.
GETCatchAsUpstream(req, env, outcome) ==
    LET q == OrText(req.q, DefaultQuery)
        perPage == Min(OrNumber(req.per_page, 12), 50)
        page == Max(OrNumber(req.page, 1), 1)
        src == ToLower(OrText(req.source, PIXABAY))
        r == IF src = UNSPLASH
             THEN IF env.UNSPLASH_ACCESS_KEY = NoKey
                  THEN JsonError(500, "Unsplash access key not configured", <<>>)
                  ELSE FetchProvider("unsplash", env.UNSPLASH_ACCESS_KEY,
                                     Destination(q), page, perPage, outcome,
                                     "Failed to fetch from Unsplash")
             ELSE IF src = PEXELS
             THEN IF env.PEXELS_API_KEY = NoKey
                  THEN JsonError(500, "Pexels API key not configured", <<>>)
                  ELSE FetchProvider("pexels", env.PEXELS_API_KEY, q, page, perPage,
                                     outcome, "Failed to fetch from Pexels")
             ELSE FetchProvider("pixabay", OrText(env.PIXABAY_KEY, PixabayFallbackKey),
                                Destination(q), page, perPage, outcome,
                                "Failed to fetch from Pixabay")
    IN  IF r.error = "Unexpected error" THEN [r EXCEPT !.status = 502] ELSE r

\* Variant of GET in which every provider has a built-in credential.
GETFallbackForAll(req, env, outcome) ==
    LET q == OrText(req.q, DefaultQuery)
        perPage == Min(OrNumber(req.per_page, 12), 50)
        page == Max(OrNumber(req.page, 1), 1)
        src == ToLower(OrText(req.source, PIXABAY))
    IN  IF src = UNSPLASH
        THEN FetchProvider("unsplash", OrText(env.UNSPLASH_ACCESS_KEY, PixabayFallbackKey),
                           Destination(q), page, perPage, outcome,
                           "Failed to fetch from Unsplash")
        ELSE IF src = PEXELS
        THEN FetchProvider("pexels", OrText(env.PEXELS_API_KEY, PixabayFallbackKey),
                           q, page, perPage, outcome, "Failed to fetch from Pexels")
        ELSE FetchProvider("pixabay", OrText(env.PIXABAY_KEY, PixabayFallbackKey),
                           Destination(q), page, perPage, outcome,
                           "Failed to fetch from Pixabay")

\* GET: req holds the search parameters q, per_page, page, source (<<>> or 0 when
\* absent), env the credentials, outcome what the outbound request meets.
GET(req, env, outcome) ==
    LET q == OrText(req.q, DefaultQuery)
        perPage == Min(OrNumber(req.per_page, 12), 50)
        page == Max(OrNumber(req.page, 1), 1)
        src == ToLower(OrText(req.source, PIXABAY))
    IN  IF src = UNSPLASH
        THEN IF env.UNSPLASH_ACCESS_KEY = NoKey
             THEN JsonError(500, "Unsplash access key not configured", <<>>)
             ELSE FetchProvider("unsplash", env.UNSPLASH_ACCESS_KEY, Destination(q),
                                page, perPage, outcome,
                                "Failed to fetch from Unsplash")
        ELSE IF src = PEXELS
        THEN IF env.PEXELS_API_KEY = NoKey
             THEN JsonError(500, "Pexels API key not configured", <<>>)
             ELSE FetchProvider("pexels", env.PEXELS_API_KEY, q, page, perPage,
                                outcome, "Failed to fetch from Pexels")
        ELSE FetchProvider("pixabay", OrText(env.PIXABAY_KEY, PixabayFallbackKey),
                           Destination(q), page, perPage, outcome,
                           "Failed to fetch from Pixabay")

-----------------------------------------------------------------------------
(* ImagePicker: loadUnique *)

\* url.searchParams.set("source", source)
SourceText(src) ==
    IF src = "unsplash" THEN UNSPLASH ELSE IF src = "pexels" THEN PEXELS ELSE PIXABAY

\* The search request of loadUnique for a query, page and source.
SearchRequest(q, page, src) ==
    [q |-> q, per_page |-> PerPage, page |-> page, source |-> SourceText(src)]

\* What fetch gives loadUnique: res.ok, the status and the body of the answer.
Answer(r) == [ok |-> r.ok, status |-> r.status, error |-> r.error, hits |-> r.hits]

\* The answers a search request can get, over every environment and outcome.
AnswersTo(req) ==
    { Answer(GET(req, env, outcome)) : env \in Envs, outcome \in ProviderOutcomes }

\* The answers to the requests of a superseded call, whose query and source the
\* model does not keep: those of any source (the query and page do not change
\* the answer).
Responses ==
    UNION { AnswersTo(SearchRequest(<<>>, 1, src)) : src \in Sources }

\* Variant of AddHits without the stop at the target count.
RECURSIVE AddHitsNoStop(_, _, _)
AddHitsNoStop(collected, currentSeen, hits) ==
    IF hits = <<>> THEN [collected |-> collected, currentSeen |-> currentSeen]
    ELSE LET h == Head(hits) IN
         IF h \notin currentSeen /\ ~(\E i \in 1..Len(collected) : collected[i] = h)
         THEN AddHitsNoStop(Append(collected, h), currentSeen \cup {h}, Tail(hits))
         ELSE AddHitsNoStop(collected, currentSeen, Tail(hits))

\* for (const h of hits) { ... }: [collected, currentSeen]
RECURSIVE AddHits(_, _, _)
AddHits(collected, currentSeen, hits) ==
    IF hits = <<>> THEN [collected |-> collected, currentSeen |-> currentSeen]
    ELSE LET h == Head(hits) IN
         IF h \notin currentSeen /\ ~(\E i \in 1..Len(collected) : collected[i] = h)
         THEN IF Len(collected) + 1 >= TargetCount
              THEN [collected |-> Append(collected, h),
                    currentSeen |-> currentSeen \cup {h}]
              ELSE AddHits(Append(collected, h), currentSeen \cup {h}, Tail(hits))
         ELSE AddHits(collected, currentSeen, Tail(hits))

\* Variant of NewGather that starts from an empty seen set.
NewGatherForgetsSeen(q, src, page, seen) ==
    [active |-> TRUE, query |-> q, source |-> src, page |-> page,
     attempts |-> 0, collected |-> <<>>, currentSeen |-> {}]

\* A loadUnique call that has sent its first request: its closure and locals.
NewGather(q, src, page, seen) ==
    [active |-> TRUE, query |-> q, source |-> src, page |-> page,
     attempts |-> 0, collected |-> <<>>, currentSeen |-> seen]

\* A call after its effect's cleanup (aborted = true): what its loop still reads.
Superseded(g) ==
    [page |-> g.page, attempts |-> g.attempts, collected |-> g.collected,
     currentSeen |-> g.currentSeen]

\* Variant of AfterPage that asks for the same page again when the page brought
\* nothing new.
AfterPageRepeats(g, hits) ==
    LET a == AddHits(g.collected, g.currentSeen, hits) IN
    [g EXCEPT !.collected = a.collected, !.currentSeen = a.currentSeen,
              !.page = IF a.collected = g.collected THEN g.page ELSE g.page + 1,
              !.attempts = g.attempts + 1]

\* One pass of the while body on a successful response.
AfterPage(g, hits) ==
    LET a == AddHits(g.collected, g.currentSeen, hits) IN
    [g EXCEPT !.collected = a.collected, !.currentSeen = a.currentSeen,
              !.page = g.page + 1, !.attempts = g.attempts + 1]

\* Variant of LoopContinues without the break on a page without results.
LoopContinuesPastEmpty(g, hits) ==
    /\ Len(g.collected) < TargetCount
    /\ g.attempts < MaxAttempts

\* Variant of LoopContinues without the attempt budget.
LoopContinuesNoBudget(g, hits) ==
    /\ hits # <<>>
    /\ Len(g.collected) < TargetCount

\* The loop goes on to another request: no break, and the while condition holds.
LoopContinues(g, hits) ==
    /\ hits # <<>>
    /\ Len(g.collected) < TargetCount
    /\ g.attempts < MaxAttempts

-----------------------------------------------------------------------------
(* ImagePicker: rendering and effects *)

\* The values the effects depend on, for a component state.
Deps(st) ==
    [query |-> QueryAt(locations, st.startLetter, st.locationIndex),
     pageNum |-> st.pageNum, source |-> st.source,
     startLetter |-> st.startLetter, status |-> st.status]

\* Variant of EffectsToRun in which the reset effect depends on the query only.
EffectsToRunResetOnQuery(prev, d) ==
    [filter |-> prev.startLetter # d.startLetter,
     reset |-> prev.query # d.query,
     load |-> prev.query # d.query \/ prev.pageNum # d.pageNum
                \/ prev.source # d.source,
     success |-> prev.status # d.status /\ d.status = "success"]

\* Which effects run in a commit: those with a dependency that differs from the
\* previous commit's (prev); d: the dependencies of this commit.
EffectsToRun(prev, d) ==
    [filter |-> prev.startLetter # d.startLetter,
     reset |-> prev.query # d.query \/ prev.source # d.source,
     load |-> prev.query # d.query \/ prev.pageNum # d.pageNum
                \/ prev.source # d.source,
     success |-> prev.status # d.status /\ d.status = "success"]

\* The state after the effects of one commit, in declaration order: index reset,
\* batch reset, cleanup of the previous loadUnique call and start of the next
\* one (with the pageNum of this render), goNext on success.
AfterEffects(st, d, run) ==
    [st EXCEPT
        !.locationIndex = (IF run.filter THEN 0 ELSE st.locationIndex)
                            + (IF run.success THEN 1 ELSE 0),
        !.images = IF run.reset THEN <<>> ELSE st.images,
        !.selectedImage = IF run.reset \/ run.success THEN 0 ELSE st.selectedImage,
        !.pageNum = IF run.reset THEN 1 ELSE st.pageNum,
        !.seenIdsRef = IF run.reset THEN {} ELSE st.seenIdsRef,
        !.lastDone = IF run.reset THEN NoDone ELSE st.lastDone,
        !.shown = IF run.reset THEN {} ELSE st.shown,
        !.stale = IF run.load /\ st.gather.active
                  THEN Append(st.stale, Superseded(st.gather)) ELSE st.stale,
        !.gather = IF ~run.load THEN st.gather
                   ELSE IF d.query = <<>> THEN NoGather
                   ELSE NewGather(d.query, d.source, st.pageNum,
                                  IF run.reset THEN {} ELSE st.seenIdsRef),
        !.loading = IF run.load /\ d.query # <<>> THEN TRUE ELSE st.loading]

\* The effects of one commit, then those of the renders their state updates
\* cause, until a commit runs no effect.  prev: the dependencies of the previous
\* commit, d: those of this one.
RECURSIVE RunEffectsFrom(_, _, _)
RunEffectsFrom(prev, d, st) ==
    IF prev = d THEN st
    ELSE RunEffectsFrom(d, Deps(AfterEffects(st, d, EffectsToRun(prev, d))),
                        AfterEffects(st, d, EffectsToRun(prev, d)))

RunEffects(prev, st) == RunEffectsFrom(prev, Deps(st), st)

\* The component state as a record, and the dependencies of the last commit.
Current ==
    [locationIndex |-> locationIndex, images |-> images, loading |-> loading,
     selectedImage |-> selectedImage, refreshing |-> refreshing,
     pageNum |-> pageNum, seenIdsRef |-> seenIdsRef, source |-> source,
     startLetter |-> startLetter, status |-> actionState.status,
     gather |-> gather, stale |-> stale, lastDone |-> lastDone, shown |-> shown]

\* The state an event handler leaves (st), rendered and with all effects run.
Commit(st) ==
    \E out \in { RunEffects(Deps(Current), st) } :
        /\ Len(out.stale) <= MaxStale
        /\ locationIndex' = out.locationIndex
        /\ images' = out.images
        /\ loading' = out.loading
        /\ selectedImage' = out.selectedImage
        /\ refreshing' = out.refreshing
        /\ pageNum' = out.pageNum
        /\ seenIdsRef' = out.seenIdsRef
        /\ source' = out.source
        /\ startLetter' = out.startLetter
        /\ gather' = out.gather
        /\ stale' = out.stale
        /\ lastDone' = out.lastDone
        /\ shown' = out.shown

-----------------------------------------------------------------------------
(* ImagePicker: operations *)

\* The operator clicks: one more action of the session.
OperatorActs == ops < MaxOps /\ ops' = ops + 1

\* Variant of goNext that stops at the last record of the working list.
goNextClamped(st) ==
    [st EXCEPT !.selectedImage = 0,
               !.locationIndex =
                    IF st.locationIndex + 1
                        < Len(FilteredLocations(locations, st.startLetter))
                    THEN st.locationIndex + 1 ELSE st.locationIndex]

\* function goNext
goNext(st) ==
    [st EXCEPT !.selectedImage = 0, !.locationIndex = st.locationIndex + 1]

\* Skip button
Skip ==
    /\ OperatorActs
    /\ ~isPending /\ ~isDone
    /\ Commit(goNext(Current))
    /\ UNCHANGED <<csv, calls, search, locations, actionState, isPending, pendingForm>>

\* handleRefresh ("show more")
handleRefresh ==
    /\ OperatorActs
    /\ ~isDone
    /\ ~(loading \/ refreshing \/ isPending)
    /\ Commit([Current EXCEPT !.refreshing = TRUE, !.pageNum = pageNum + 1])
    /\ UNCHANGED <<csv, calls, search, locations, actionState, isPending, pendingForm>>

\* source select onChange
SetSource(src) ==
    /\ OperatorActs
    /\ ~isDone
    /\ ~(loading \/ refreshing \/ isPending)
    /\ src # source
    /\ Commit([Current EXCEPT !.source = src])
    /\ UNCHANGED <<csv, calls, search, locations, actionState, isPending, pendingForm>>

\* letter buttons and "All" (<<>>)
SetStartLetter(letter) ==
    /\ OperatorActs
    /\ ~isDone
    /\ ~(isPending \/ loading \/ refreshing)
    /\ letter = <<>> \/ letter \in AvailableLetters(locations)
    /\ letter # startLetter
    /\ Commit([Current EXCEPT !.startLetter = letter])
    /\ UNCHANGED <<csv, calls, search, locations, actionState, isPending, pendingForm>>

\* Variant of handlePick without the isPending test.
handlePickWhilePending(img) ==
    /\ OperatorActs
    /\ ~isDone
    /\ selectedImage' = img
    /\ pendingForm' = [set |-> TRUE, city |-> selectedLocation.city,
                       country |-> selectedLocation.country,
                       imageId |-> IdText(img), imageUrl |-> ImagePath(img)]
    /\ isPending' = TRUE
    /\ UNCHANGED <<csv, calls, search, locations, locationIndex, images, loading,
                   refreshing, pageNum, seenIdsRef, source, startLetter,
                   actionState, gather, stale, lastDone, shown>>

\* handlePick: the form is sent, the action is pending
handlePick(img) ==
    /\ OperatorActs
    /\ ~isDone /\ ~isPending
    /\ selectedImage' = img
    /\ pendingForm' = [set |-> TRUE, city |-> selectedLocation.city,
                       country |-> selectedLocation.country,
                       imageId |-> IdText(img), imageUrl |-> ImagePath(img)]
    /\ isPending' = TRUE
    /\ UNCHANGED <<csv, calls, search, locations, locationIndex, images, loading,
                   refreshing, pageNum, seenIdsRef, source, startLetter,
                   actionState, gather, stale, lastDone, shown>>

\* The server action returns: useActionState takes its result, and the effect on
\* actionState.status runs goNext when the status became "success".
ActionReturns(download, store) ==
    /\ isPending
    /\ LET r == downloadImageAndUpdateCsv(pendingForm, csv, download, store) IN
       /\ csv' = r.lines
       /\ actionState' = r.state
       /\ Commit([Current EXCEPT !.status = r.state.status])
    /\ isPending' = FALSE
    /\ pendingForm' = NoForm
    /\ UNCHANGED <<calls, search, locations, ops>>

\* Variant of GatherResponse whose failure path shows what was collected so far.
GatherResponseKeepsPartial(resp) ==
    /\ gather.active
    /\ IF ~resp.ok
       THEN /\ images' = gather.collected
            /\ gather' = NoGather
            /\ lastDone' = [kind |-> "failed", start |-> pageNum,
                            pages |-> gather.attempts]
            /\ UNCHANGED <<seenIdsRef, shown>>
       ELSE LET g == AfterPage(gather, resp.hits) IN
            IF LoopContinues(g, resp.hits)
            THEN /\ gather' = g
                 /\ UNCHANGED <<images, seenIdsRef, lastDone, shown>>
            ELSE /\ seenIdsRef' = g.currentSeen
                 /\ images' = g.collected
                 /\ gather' = NoGather
                 /\ lastDone' = [kind |-> "applied", start |-> pageNum,
                                 pages |-> g.attempts]
                 /\ shown' = shown \cup { g.collected[i] : i \in 1..Len(g.collected) }
    /\ loading' = (gather'.active)
    /\ refreshing' = (gather'.active /\ refreshing)
    /\ UNCHANGED <<csv, calls, search, locations, locationIndex, selectedImage, pageNum,
                   source, startLetter, actionState, isPending, pendingForm, stale,
                   ops>>

\* The search request of the current loadUnique call is answered.
GatherResponse(resp) ==
    /\ gather.active
    /\ IF ~resp.ok
       THEN \* throw new Error("Search failed"): catch, finally
            /\ images' = <<>>
            /\ gather' = NoGather
            /\ lastDone' = [kind |-> "failed", start |-> pageNum,
                            pages |-> gather.attempts]
            /\ UNCHANGED <<seenIdsRef, shown>>
       ELSE LET g == AfterPage(gather, resp.hits) IN
            IF LoopContinues(g, resp.hits)
            THEN /\ gather' = g
                 /\ UNCHANGED <<images, seenIdsRef, lastDone, shown>>
            ELSE /\ seenIdsRef' = g.currentSeen
                 /\ images' = g.collected
                 /\ gather' = NoGather
                 /\ lastDone' = [kind |-> "applied", start |-> pageNum,
                                 pages |-> g.attempts]
                 /\ shown' = shown \cup { g.collected[i] : i \in 1..Len(g.collected) }
    /\ loading' = (gather'.active)
    /\ refreshing' = (gather'.active /\ refreshing)
    /\ UNCHANGED <<csv, calls, search, locations, locationIndex, selectedImage, pageNum,
                   source, startLetter, actionState, isPending, pendingForm, stale,
                   ops>>

RemoveAt(seq, i) == SubSeq(seq, 1, i - 1) \o SubSeq(seq, i + 1, Len(seq))

\* Variant of StaleResponse without the aborted test: a superseded call that ends
\* well applies its result.
StaleResponseApplies(i, resp) ==
    /\ i \in 1..Len(stale)
    /\ IF resp.ok /\ LoopContinues(AfterPage(stale[i], resp.hits), resp.hits)
       THEN /\ stale' = [stale EXCEPT ![i] = AfterPage(stale[i], resp.hits)]
            /\ UNCHANGED <<images, seenIdsRef>>
       ELSE /\ stale' = RemoveAt(stale, i)
            /\ IF resp.ok
               THEN /\ images' = AfterPage(stale[i], resp.hits).collected
                    /\ seenIdsRef' = AfterPage(stale[i], resp.hits).currentSeen
               ELSE UNCHANGED <<images, seenIdsRef>>
    /\ UNCHANGED <<csv, calls, search, locations, locationIndex, loading,
                   selectedImage, refreshing, pageNum, source,
                   startLetter, actionState, isPending, pendingForm, gather,
                   lastDone, shown, ops>>

\* The search request of a superseded loadUnique call is answered (aborted = true).
StaleResponse(i, resp) ==
    /\ i \in 1..Len(stale)
    /\ IF resp.ok /\ LoopContinues(AfterPage(stale[i], resp.hits), resp.hits)
       THEN stale' = [stale EXCEPT ![i] = AfterPage(stale[i], resp.hits)]
       ELSE stale' = RemoveAt(stale, i)
    /\ UNCHANGED <<csv, calls, search, locations, locationIndex, images, loading,
                   selectedImage, refreshing, pageNum, seenIdsRef, source,
                   startLetter, actionState, isPending, pendingForm, gather,
                   lastDone, shown, ops>>

-----------------------------------------------------------------------------
(* The picker specification: Home renders ImagePicker on file.csv *)

PickerHeader == <<CITY, COUNTRY, TYPE, FILENAME>>

PickerRowFields ==
    { << <<"P">>, <<"F">>, <<>>, <<>> >>,
      << <<"R">>, <<"i">>, <<>>, <<>> >> }

PickerLines == { stringifyCsvLine(f) : f \in PickerRowFields }

PickerTables ==
    { <<stringifyCsvLine(PickerHeader)>> \o rows : rows \in SeqsUpTo(PickerLines, MaxLocs) }

\* The state after the first render and its effects: the first loadUnique call
\* has sent its request when there is a record.
Init ==
    /\ csv \in PickerTables
    /\ calls = <<>>
    /\ locations = Incomplete(loadLocations(csv))
    /\ locationIndex = 0
    /\ images = <<>>
    /\ selectedImage = 0
    /\ refreshing = FALSE
    /\ pageNum = 1
    /\ seenIdsRef = {}
    /\ source = "pixabay"
    /\ startLetter = <<>>
    /\ actionState = Idle
    /\ isPending = FALSE
    /\ pendingForm = NoForm
    /\ stale = <<>>
    /\ lastDone = NoDone
    /\ shown = {}
    /\ ops = 0
    /\ search = NoSearch
    /\ gather = IF QueryAt(locations, <<>>, 0) = <<>> THEN NoGather
                ELSE NewGather(QueryAt(locations, <<>>, 0), "pixabay", 1, {})
    /\ loading = (QueryAt(locations, <<>>, 0) # <<>>)

Next ==
    \/ Skip
    \/ handleRefresh
    \/ \E src \in Sources : SetSource(src)
    \/ \E letter \in { <<>> } \cup { <<UpperCase[i]>> : i \in 1..26 } : SetStartLetter(letter)
    \/ \E i \in 1..MaxPickPos : i <= Len(images) /\ handlePick(images[i])
    \/ \E download \in { "ok", "fail" }, store \in { "ok", "fail" } :
            ActionReturns(download, store)
    \/ /\ gather.active
       /\ \E resp \in AnswersTo(SearchRequest(gather.query, gather.page, gather.source)) :
                GatherResponse(resp)
    \/ \E i \in 1..MaxStale, resp \in Responses : StaleResponse(i, resp)

Spec == Init /\ [][Next]_vars

-----------------------------------------------------------------------------
(* The server-action specification: downloadImageAndUpdateCsv on any form *)

\* Form fields as a client can send them: missing, blank, or filled.
FormCities ==
    { <<>>, <<SP>>, CityP, <<"S", ATILDE, "o", SP, "P">>, <<"P", TRADEMARK>> }
FormCountries == { <<>>, CountryF }
FormIds == { <<>>, <<"!">>, <<"3">> }
FormUrls == { <<>>, <<SP>>, ImagePath(3) }

Forms ==
    { [set |-> TRUE, city |-> c, country |-> k, imageId |-> id, imageUrl |-> url] :
        c \in FormCities, k \in FormCountries, id \in FormIds, url \in FormUrls }

\* The page as first rendered, with a call of the server action under way.
InitAction ==
    /\ csv \in PickerTables
    /\ calls = <<>>
    /\ locations = Incomplete(loadLocations(csv))
    /\ locationIndex = 0
    /\ images = <<>>
    /\ selectedImage = 0
    /\ refreshing = FALSE
    /\ pageNum = 1
    /\ seenIdsRef = {}
    /\ source = "pixabay"
    /\ startLetter = <<>>
    /\ actionState = Idle
    /\ isPending = TRUE
    /\ pendingForm \in Forms
    /\ stale = <<>>
    /\ lastDone = NoDone
    /\ shown = {}
    /\ ops = 0
    /\ search = NoSearch
    /\ gather = IF QueryAt(locations, <<>>, 0) = <<>> THEN NoGather
                ELSE NewGather(QueryAt(locations, <<>>, 0), "pixabay", 1, {})
    /\ loading = (QueryAt(locations, <<>>, 0) # <<>>)

NextAction ==
    \E download \in { "ok", "fail" }, store \in { "ok", "fail" } :
        ActionReturns(download, store)

SpecAction == InitAction /\ [][NextAction]_vars

-----------------------------------------------------------------------------
(* The render specification: ImagePicker rendered for any filter and position *)

\* Filters: none, a letter some country starts with in either case, a letter
\* no country starts with.
RenderLetters == { <<>>, <<"F">>, <<"I">>, <<"Z">> }

\* The component mounted with any list, filter and position, its first gather
\* started when there is a current record.
InitRender ==
    /\ csv \in PickerTables
    /\ calls = <<>>
    /\ locations = Incomplete(loadLocations(csv))
    /\ startLetter \in RenderLetters
    /\ locationIndex \in 0..MaxLocs
    /\ images = <<>>
    /\ selectedImage = 0
    /\ refreshing = FALSE
    /\ pageNum = 1
    /\ seenIdsRef = {}
    /\ source = "pixabay"
    /\ actionState = Idle
    /\ isPending = FALSE
    /\ pendingForm = NoForm
    /\ stale = <<>>
    /\ lastDone = NoDone
    /\ shown = {}
    /\ ops = 0
    /\ search = NoSearch
    /\ gather = IF query = <<>> THEN NoGather
                ELSE NewGather(query, "pixabay", 1, {})
    /\ loading = (query # <<>>)

SpecRender == InitRender /\ [][Next]_vars

-----------------------------------------------------------------------------
(* The search specification: GET /api/search on any request and environment *)

\* Search parameters: absent, the picker's, and others a client can send.
SearchQueries == { <<>>, <<"P", SP, "F">> }
SearchPerPages == { 0, PerPage, 60 }
SearchPageParams == { 0, 2 }
SearchSourceParams == { <<>>, PIXABAY, UNSPLASH, PEXELS, <<"P">> \o Tail(PEXELS) }

SearchRequests ==
    [q : SearchQueries, per_page : SearchPerPages, page : SearchPageParams,
     source : SearchSourceParams]

InitSearch ==
    /\ csv = <<stringifyCsvLine(PickerHeader)>>
    /\ calls = <<>>
    /\ locations = <<>>
    /\ PickerInit

\* One call of the endpoint; it keeps nothing from one call to the next, and a
\* behaviour holds one call.
Search(req, env, outcome) ==
    /\ ~search.called
    /\ search' = [called |-> TRUE, request |-> req, env |-> env,
                  outcome |-> outcome, result |-> GET(req, env, outcome)]
    /\ UNCHANGED <<csv, calls, locations, locationIndex, images, loading,
                   selectedImage, refreshing, pageNum, seenIdsRef, source,
                   startLetter, actionState, isPending, pendingForm, gather, stale,
                   lastDone, shown, ops>>

NextSearch ==
    \E req \in SearchRequests, env \in Envs, outcome \in ProviderOutcomes :
        Search(req, env, outcome)

SpecSearch == InitSearch /\ [][NextSearch]_vars

-----------------------------------------------------------------------------
(* Picker properties *)

IdsOf(seq) == { seq[i] : i \in 1..Len(seq) }

\* The page a loadUnique call started at.
StartPage(g) == g.page - g.attempts

\* The call was started for the record, provider and page cursor now current.
ForCurrent(g) == g.query = query /\ g.source = source /\ StartPage(g) = pageNum

\* A server action has just returned with success.
PickSucceeds == isPending /\ ~isPending' /\ actionState'.status = "success"

\* C1: every pick whose download and persist complete with success moves the
\* workflow to the next record (the location index increases by one), also when
\* the previous pick ended in success.
C1_SuccessAdvances == [][PickSucceeds => locationIndex' = locationIndex + 1]_vars

\* The step moves to a next record that exists (skip or successful pick).
MovesToRecord ==
    /\ locationIndex' = locationIndex + 1
    /\ startLetter' = startLetter
    /\ ~isDone'

\* C2: every move to another record empties the batch and the seen-id set,
\* sets the page cursor to 1 and starts a gather from page 1 for the new record,
\* also when the new record has the same city and country as the previous one.
C2_MoveResets ==
    [][MovesToRecord =>
        /\ images' = <<>>
        /\ seenIdsRef' = {}
        /\ pageNum' = 1
        /\ gather'.active
        /\ gather'.page = 1
        /\ gather'.attempts = 0
        /\ gather'.query = query']_vars

\* C3: when the last gather applied for the record and provider started at page
\* p and read k pages, the show-more gather that follows starts at page p + k.
C3_ShowMoreResumesAfterLastPage ==
    (gather.active /\ lastDone.kind = "applied")
        => StartPage(gather) = lastDone.start + lastDone.pages

\* The step changes the batch or the seen-id set.
BatchChanges == images' # images \/ seenIdsRef' # seenIdsRef

\* The step applies the result of the current loadUnique call, which was started
\* for the current record, provider and page cursor.
AppliesCurrent ==
    /\ gather.active /\ ForCurrent(gather)
    /\ ~gather'.active
    /\ query' = query /\ source' = source /\ pageNum' = pageNum
    /\ IdsOf(gather.collected) \subseteq IdsOf(images')
    /\ seenIdsRef' = gather.currentSeen \cup IdsOf(images')

\* The step empties the batch (reset or failed gather).
EmptiesBatch == images' = <<>> /\ seenIdsRef' \in { {}, seenIdsRef }

\* The step moves to another record, or changes the provider or the page cursor.
KeyChanges ==
    \/ locationIndex' # locationIndex /\ startLetter' = startLetter
    \/ source' # source
    \/ pageNum' # pageNum

\* The step supersedes the call in flight: it can no longer apply its result.
SupersedesGather ==
    /\ Len(stale') = Len(stale) + 1
    /\ stale'[Len(stale')] = Superseded(gather)

\* C4: if the record, the provider or the page cursor changes while a gather is
\* in flight, that gather is superseded and its result is never applied; the
\* batch and the seen-id set change only by a reset or by the result of the
\* gather started for the current record, provider and page cursor.
C4_ChangeSupersedesGather ==
    [][/\ (gather.active /\ KeyChanges) => SupersedesGather
       /\ BatchChanges => (EmptiesBatch \/ AppliesCurrent)]_vars

\* The same with the record taken as its query text: the call in flight that may
\* apply its result is always the one started for the current query, provider
\* and page cursor, whatever the order of completion.
OnlyCurrentQueryGatherApplies ==
    [][/\ gather'.active => ForCurrent(gather)'
       /\ BatchChanges => (EmptiesBatch \/ AppliesCurrent)]_vars

\* A superseded call has read pages and still runs after the call that replaced
\* it has ended and its batch is shown.
StaleStillRuns ==
    /\ stale # <<>>
    /\ stale[1].attempts > 0
    /\ ~gather.active
    /\ images # <<>>
    /\ images # stale[1].collected

IsInjective(seq) == \A i, j \in 1..Len(seq) : seq[i] = seq[j] => i = j

\* C5: a batch produced by a gather contains no id of the seen-id set the gather
\* started with, no id twice, and at most 6 results.
C5_BatchFreshDistinctBounded ==
    [][images' # images =>
        /\ IdsOf(images') \cap seenIdsRef = {}
        /\ IsInjective(images')
        /\ Len(images') <= TargetCount]_vars

\* A full batch was produced by a gather that started with a non-empty seen set,
\* from pages that held more unseen ids than the batch took.
C5_Witness ==
    /\ Len(images) = TargetCount
    /\ seenIdsRef # IdsOf(images)
    /\ seenIdsRef # 1..MaxId
    /\ pageNum > 1

\* C6: a gather sends at most 5 page requests (a call in flight has had fewer
\* than 5 answers), also when every page holds only ids already seen.
C6_AtMostFiveRequests ==
    /\ gather.active => gather.attempts < MaxAttempts
    /\ \A i \in 1..Len(stale) : stale[i].attempts < MaxAttempts

\* A gather is at its fifth request after four pages that held only seen ids.
C6_Witness ==
    /\ gather.active
    /\ gather.attempts = MaxAttempts - 1
    /\ gather.collected = <<>>
    /\ seenIdsRef # {}

\* The step applies a non-empty result of the current call.
AppliesBatch == gather.active /\ ~gather'.active /\ images' # <<>>

\* C7: show more keeps the seen-id set; the batch then applied replaces the old
\* one, shares no id with any batch shown since the last reset, and the seen-id
\* set grows by exactly the ids of the new batch.
C7_ShowMoreReplacesAndExcludesShown ==
    [][/\ pageNum' = pageNum + 1 => seenIdsRef' = seenIdsRef
       /\ AppliesBatch =>
            /\ IdsOf(images') \cap shown = {}
            /\ IdsOf(images') \cap IdsOf(images) = {}
            /\ seenIdsRef' = seenIdsRef \cup IdsOf(images')
            /\ shown \subseteq seenIdsRef']_vars

\* A show-more batch is shown after an earlier non-empty batch of the same record.
C7_Witness ==
    /\ pageNum > 1
    /\ ~gather.active
    /\ images # <<>>
    /\ shown # IdsOf(images)
    /\ lastDone.kind = "applied"

\* The step is the failure of a page request of the current call.
GatherFails == lastDone' # lastDone /\ lastDone'.kind = "failed"

\* C8: when a page request of a gather fails, what the gather collected is
\* dropped (empty batch, seen-id set unchanged), the workflow stays on the same
\* record with loading and refreshing cleared, and the action state is untouched,
\* so that show more is offered again.
C8_FailureEmptiesBatchAndStays ==
    [][GatherFails =>
        /\ images' = <<>>
        /\ seenIdsRef' = seenIdsRef
        /\ locationIndex' = locationIndex
        /\ ~isDone'
        /\ ~loading' /\ ~refreshing'
        /\ actionState' = actionState
        /\ isPending' = isPending]_vars

\* After a gather failed with pages already read, a show-more gather is running.
C8_Witness ==
    /\ lastDone.kind = "failed"
    /\ lastDone.pages >= 1
    /\ gather.active
    /\ pageNum = lastDone.start + 1

-----------------------------------------------------------------------------
(* Record-store properties read through the header's column names *)

\* The header of a table as loadLocations reads it.
NamedHeader(t) == NormalizedHeader(parseCsvLine(t[1]))

\* The record of data line i: the fields in the columns the header names.
Record(t, i) == RowOf(NamedHeader(t), t[i])

\* The field of data line i in the column the header names type.
TypeOf(t, i) == FieldAt(parseCsvLine(t[i]), IndexOf(NamedHeader(t), TYPE))

\* The data lines whose record has the given city and country.
NamedMatching(t, city, country) ==
    { i \in 2..Len(t) :
        /\ ~IsBlank(t[i])
        /\ Record(t, i).city = city
        /\ Record(t, i).country = country }

\* C11: when no row of the table has the given city and country, a call appends
\* exactly one row, which holds the city, the country, an empty type and the
\* filename in the columns the header names for them, and every earlier data
\* line keeps its content and its place.
C11_AppendsRowInNamedColumns ==
    \A j \in 1..Len(calls) :
        LET t0 == calls[j].before
            t1 == TableAfter(j)
        IN  NamedMatching(t0, calls[j].city, calls[j].country) = {} =>
            /\ Len(t1) = Len(t0) + 1
            /\ \A i \in 2..Len(t0) : t1[i] = t0[i]
            /\ Record(t1, Len(t1)) = [city |-> calls[j].city,
                                      country |-> calls[j].country,
                                      filename |-> calls[j].filename]
            /\ TypeOf(t1, Len(t1)) = <<>>

\* The header names a city column and a country column.
NamesKey(t) == IndexOf(NamedHeader(t), CITY) # 0 /\ IndexOf(NamedHeader(t), COUNTRY) # 0

\* A record that had the given city and country and an empty filename now
\* carries the given filename, at the same place in the list.
FillsOwnRecord(before, after, city, country, filename) ==
    \E i \in 1..Len(before) :
        /\ before[i] = [city |-> city, country |-> country, filename |-> <<>>]
        /\ i <= Len(after)
        /\ after[i] = [city |-> city, country |-> country, filename |-> filename]

\* C12: for every table whose header names the city and country columns, in any
\* column positions, a call for a record that loadLocations returns with an
\* empty filename fills that record's own row: loadLocations then returns the
\* same number of records, that record now carrying the filename.
C12_FillsRecordUnderAnyColumnOrder ==
    \A j \in 1..Len(calls) :
        LET before == loadLocations(calls[j].before)
            after == loadLocations(TableAfter(j))
            empty == [city |-> calls[j].city, country |-> calls[j].country,
                      filename |-> <<>>]
        IN  (NamesKey(calls[j].before)
                /\ \E i \in 1..Len(before) : before[i] = empty)
            => /\ Len(after) = Len(before)
               /\ FillsOwnRecord(before, after, calls[j].city, calls[j].country,
                                 calls[j].filename)

\* The header has no filename column.
LacksFilename(t) == IndexOf(NamedHeader(t), FILENAME) = 0

\* No data line has more fields than the header.
FitsHeader(t) ==
    \A i \in 2..Len(t) :
        ~IsBlank(t[i]) => Len(parseCsvLine(t[i])) <= Len(parseCsvLine(t[1]))

\* C13: when a call runs on a table whose header has no filename column (and
\* whose data lines fit the header), the written table has filename appended as
\* the last header column, and every non-blank data line, not only the updated
\* one, has as many fields as the new header; a line that was not updated has
\* its old fields and an empty added field.
C13_EveryRowWidened ==
    \A j \in 1..Len(calls) :
        LET t0 == calls[j].before
            t1 == TableAfter(j)
            n == Len(parseCsvLine(t0[1])) + 1
            r == TargetRow(t0, calls[j].city, calls[j].country)
        IN  (LacksFilename(t0) /\ FitsHeader(t0)) =>
            /\ parseCsvLine(t1[1]) = Append(parseCsvLine(t0[1]), FILENAME)
            /\ \A i \in 2..Len(t1) :
                ~IsBlank(t1[i]) =>
                    /\ Len(parseCsvLine(t1[i])) = n
                    /\ i # r => parseCsvLine(t1[i]) = PadFields(parseCsvLine(t0[i]), n)

-----------------------------------------------------------------------------
(* Picker properties: persist *)

\* The server action has just returned.
ActionEnds == isPending /\ ~isPending'

\* The server action has just returned because the image download failed.
DownloadFails == ActionEnds /\ actionState'.message = "Failed to download image"

\* C14: when the download of the picked image fails, the file is not written
\* (the record keeps its empty filename), the action ends with an error status
\* and a message, and the workflow stays on the same record with the same
\* candidates and picks enabled again; the file is written only by an action
\* that ends in success, after the download.
C14_DownloadFailureWritesNothing ==
    [][/\ DownloadFails =>
            /\ csv' = csv
            /\ actionState'.status = "error"
            /\ actionState'.message # ""
            /\ locationIndex' = locationIndex
            /\ startLetter' = startLetter
            /\ images' = images
            /\ ~isDone'
       /\ csv' # csv => (ActionEnds /\ actionState'.status = "success")]_vars

\* After a failed download a second pick on the same record is pending.
C14_Witness ==
    /\ actionState.message = "Failed to download image"
    /\ isPending
    /\ pendingForm.set
    /\ locationIndex = 0
    /\ Incomplete(loadLocations(csv)) = locations

\* A required field of the form is empty after trimming.
MissingField(form) ==
    \/ Trim(form.city) = <<>>
    \/ Trim(form.country) = <<>>
    \/ Trim(form.imageId) = <<>>
    \/ Trim(form.imageUrl) = <<>>

\* Whatever the network and the file system would answer, the action makes no
\* access and returns an error with a message.
RejectedBeforeIo(form, lines) ==
    \A download \in { "ok", "fail" }, store \in { "ok", "fail" } :
        LET r == downloadImageAndUpdateCsv(form, lines, download, store) IN
        /\ r.io = <<>>
        /\ r.lines = lines
        /\ r.state.status = "error"
        /\ r.state.message # ""

\* C15: a persist request in which city, country, image id or image url is
\* empty after trimming ends with an error and a message, without a download
\* request, a creation of the output directory or a read or write of the file;
\* the workflow state other than the surfaced error is unchanged.
C15_MissingFieldRejectedBeforeIo ==
    [][(ActionEnds /\ MissingField(pendingForm)) =>
        /\ RejectedBeforeIo(pendingForm, csv)
        /\ actionState'.status = "error"
        /\ actionState'.message # ""
        /\ UNCHANGED <<csv, locations, locationIndex, images, loading,
                       selectedImage, refreshing, pageNum, seenIdsRef, source,
                       startLetter, gather, stale>>]_vars

\* A request with a blank city and all other fields filled was rejected.
C15_Witness ==
    /\ ~isPending
    /\ actionState.message = "Missing required fields"
    /\ locations # <<>>
    /\ gather.active

-----------------------------------------------------------------------------
(* Picker properties: skip, picks, provider, filter *)

\* C16: a skip moves the workflow to the next record (location index plus one)
\* in the same step, whether the gather is loading, has ended or has failed; it
\* starts no action, downloads nothing and does not write the file, so the
\* skipped record keeps its empty filename.
C16_SkipAdvancesWithoutPersist ==
    [][Skip =>
        /\ locationIndex' = locationIndex + 1
        /\ startLetter' = startLetter
        /\ csv' = csv
        /\ Incomplete(loadLocations(csv')) = Incomplete(loadLocations(csv))
        /\ ~isPending'
        /\ pendingForm' = NoForm
        /\ actionState' = actionState]_vars

\* The operator skipped the last record while its gather was loading: no action
\* ever ran, the workflow is past the last record and the gather is superseded.
C16_Witness ==
    /\ locations # <<>>
    /\ locationIndex = Len(locations)
    /\ actionState = Idle
    /\ ~isPending
    /\ stale # <<>>
    /\ Incomplete(loadLocations(csv)) = locations

\* The step is a click on a candidate that handlePick accepts.
PickAccepted == \E i \in 1..Len(images) : handlePick(images[i])

\* C17: at most one persist operation is in flight: a pick is accepted only
\* when no action is pending, and from then until the action returns the form
\* in flight and the selected image stay the same, so every further pick is
\* rejected.
C17_OnePersistInFlight ==
    [][/\ PickAccepted => (~isPending /\ isPending')
       /\ isPending => (~isPending' \/ (/\ pendingForm' = pendingForm
                                         /\ selectedImage' = selectedImage))
       /\ isPending' = pendingForm'.set]_vars

\* An action is pending while a second candidate is shown and the operator may
\* still click.
C17_Witness ==
    /\ isPending
    /\ Len(images) >= 2
    /\ ~isDone
    /\ ops < MaxOps

\* C18: a provider change while browsing a record empties the batch and the
\* seen-id set, sets the page cursor to 1 and starts a gather from page 1 with
\* the new provider for the same record; the gather starts with an empty seen
\* set, so no id seen under the previous provider excludes a result.
C18_ProviderChangeResets ==
    [][source' # source =>
        /\ locationIndex' = locationIndex
        /\ query' = query
        /\ images' = <<>>
        /\ seenIdsRef' = {}
        /\ pageNum' = 1
        /\ gather' = NewGather(query, source', 1, {})
        /\ loading']_vars

\* The provider was changed after a show more: the gather of the new provider
\* runs from page 1, and the one the effects first started from the old page
\* cursor is superseded.
C18_Witness ==
    /\ source # "pixabay"
    /\ gather.active
    /\ gather.attempts = 0
    /\ pageNum = 1
    /\ stale # <<>>
    /\ stale[1].page >= 2

\* The records whose country starts with the letter, in either case, in order.
RECURSIVE StartingWith(_, _)
StartingWith(locs, letter) ==
    IF locs = <<>> THEN <<>>
    ELSE (IF /\ Head(locs).country # <<>>
             /\ LowerChar(Head(locs).country[1]) = LowerChar(letter[1])
          THEN <<Head(locs)>> ELSE <<>>) \o StartingWith(Tail(locs), letter)

\* C19: under a letter filter the working list is exactly the records whose
\* country starts with that letter, compared without regard to case, in their
\* original order (the current record and the query being taken from it); after
\* every filter change the current record is the first one of the new list,
\* whatever the position was before.
C19_FilterListAndPositionReset ==
    [][/\ startLetter' # <<>> =>
            /\ FilteredLocations(locations', startLetter')
                    = StartingWith(locations', startLetter')
            /\ ~isDone' =>
                    /\ locationIndex' < Len(StartingWith(locations', startLetter'))
                    /\ selectedLocation'
                        = StartingWith(locations', startLetter')[locationIndex' + 1]
       /\ startLetter' # startLetter => locationIndex' = 0]_vars

\* After a successful pick had moved the workflow to the second record, the
\* filter was set to the letter I and the current record is the first record
\* whose country starts with i.
C19_Witness ==
    /\ startLetter = <<"I">>
    /\ actionState.status = "success"
    /\ ~isPending
    /\ locationIndex = 0
    /\ ~isDone
    /\ selectedLocation.country = <<"i">>

\* C20: when the filter matches no record while the unfiltered list is not
\* empty, the component shows "no match" and never "all complete"; "all
\* complete" is shown only when the position is past the last record of a
\* non-empty working list or the unfiltered list is empty.
C20_NoMatchIsNotAllComplete ==
    /\ (/\ startLetter # <<>>
        /\ locations # <<>>
        /\ StartingWith(locations, startLetter) = <<>>)
        => screen = "noMatch"
    /\ screen = "allComplete" =>
        \/ locations = <<>>
        \/ /\ FilteredLocations(locations, startLetter) # <<>>
           /\ locationIndex >= Len(FilteredLocations(locations, startLetter))
    /\ screen = "picker" => ~isDone

\* The filter Z matches none of the records of a non-empty list.
C20_Witness ==
    /\ startLetter = <<"Z">>
    /\ locations # <<>>
    /\ screen = "noMatch"

-----------------------------------------------------------------------------
(* Search properties *)

\* The source the endpoint serves for the last call's request.
Served == ToLower(OrText(search.request.source, PIXABAY))

\* The credential the environment holds for the served source.
Configured ==
    IF Served = UNSPLASH THEN search.env.UNSPLASH_ACCESS_KEY
    ELSE IF Served = PEXELS THEN search.env.PEXELS_API_KEY
    ELSE search.env.PIXABAY_KEY

ConfigurationErrorStatus == 500
UpstreamErrorStatus == 502

\* The provider call was made and failed.
ProviderCallFails ==
    /\ search.called
    /\ search.result.outbound # <<>>
    /\ search.outcome.kind \in { "status", "throws" }

\* C22: whenever the provider call fails (non-success status or transport
\* failure) the endpoint answers with the upstream-error status; it answers with
\* the configuration-error status only when the credential of the served
\* provider is absent; the two statuses differ.
C22_ProviderFailureIsUpstreamError ==
    /\ ConfigurationErrorStatus # UpstreamErrorStatus
    /\ ProviderCallFails => search.result.status = UpstreamErrorStatus
    /\ (search.called /\ search.result.status = ConfigurationErrorStatus)
            => Configured = NoKey

\* The part of C22 that holds: a non-success provider status is answered with
\* the upstream-error status, and an absent credential of a non-default provider
\* with the configuration-error status.
NonSuccessStatusIsUpstreamError ==
    /\ (search.called /\ search.result.outbound # <<>>
            /\ search.outcome.kind = "status")
        => search.result.status = UpstreamErrorStatus
    /\ (search.called /\ Served \in { UNSPLASH, PEXELS } /\ Configured = NoKey)
        => search.result.status = ConfigurationErrorStatus

\* The configuration error: the answer that names the missing credential.
IsConfigurationError(r) ==
    /\ r.status = ConfigurationErrorStatus
    /\ r.error \in { "Unsplash access key not configured",
                     "Pexels API key not configured" }

\* C23: for the two non-default providers a call without a configured credential
\* returns the configuration error and makes no outbound request; for the
\* default provider a call never returns the configuration error and makes
\* exactly one outbound request, with the configured credential if present and
\* the built-in one otherwise.
C23_FailClosedExceptDefault ==
    search.called =>
        IF Served \in { UNSPLASH, PEXELS }
        THEN Configured = NoKey =>
                /\ IsConfigurationError(search.result)
                /\ search.result.outbound = <<>>
        ELSE /\ ~IsConfigurationError(search.result)
             /\ Len(search.result.outbound) = 1
             /\ search.result.outbound[1].provider = "pixabay"
             /\ search.result.outbound[1].key
                    = IF Configured # NoKey THEN Configured ELSE PixabayFallbackKey

\* A call for pexels, written in capitals, without its credential; the default
\* provider's credential is absent too.
C23_Witness ==
    /\ search.called
    /\ search.request.source = <<"P">> \o Tail(PEXELS)
    /\ search.env.PEXELS_API_KEY = NoKey
    /\ search.env.PIXABAY_KEY = NoKey
    /\ search.result.outbound = <<>>

-----------------------------------------------------------------------------
(* Picker properties: search errors *)

\* The answers the request in flight of the current gather can get.
CurrentAnswers == AnswersTo(SearchRequest(gather.query, gather.page, gather.source))

ConfigurationErrors == { r \in CurrentAnswers : IsConfigurationError(r) }
UpstreamErrors == { r \in CurrentAnswers : r.status = UpstreamErrorStatus }

\* C21: when the search request of the gather is answered with the configuration
\* error, the step shows that error, so that it is not also the step of an
\* upstream failure, and the gather sends no further request.
C21_ConfigurationErrorSurfaced ==
    [][gather.active =>
        \A c \in ConfigurationErrors :
            GatherResponse(c) =>
                /\ ~gather'.active
                /\ \A u \in UpstreamErrors : ~GatherResponse(u)]_vars

\* The part of C21 that holds: a gather answered with the configuration error
\* ends, with an empty batch.
ConfigurationErrorEndsGather ==
    [][gather.active =>
        \A c \in ConfigurationErrors :
            GatherResponse(c) => ~gather'.active /\ images' = <<>>]_vars

-----------------------------------------------------------------------------
(* Server-action properties: slug and local filename *)

SlugChars == { LowerCase[i] : i \in 1..26 } \cup Digits \cup { HYPHEN }
IsSlug(s) == \A i \in 1..Len(s) : s[i] \in SlugChars

\* slug(city), hyphen, slug(country), hyphen, sanitized id, dot, extension
LocalFilename(form) ==
    toSlug(Trim(form.city)) \o <<HYPHEN>> \o toSlug(Trim(form.country))
        \o <<HYPHEN>> \o SafeId(Trim(form.imageId)) \o <<DOT>>
        \o getFileExtensionFromUrl(Trim(form.imageUrl))

Saves == ActionEnds /\ actionState'.status = "success"

\* C24: the slug of every text contains only lower-case letters, digits and
\* hyphens, and the local filename of a saved image is slug(city), hyphen,
\* slug(country), hyphen, sanitized id, dot, extension.
C24_SlugCleanAndFilenameComposed ==
    [][Saves =>
        /\ IsSlug(toSlug(Trim(pendingForm.city)))
        /\ IsSlug(toSlug(Trim(pendingForm.country)))
        /\ actionState'.filename = LocalFilename(pendingForm)]_vars

\* The part of C24 that holds: the slug has no white space, underscore or other
\* punctuation, only letters, digits and hyphens, and the filename is composed
\* as stated.
SlugOfLettersDigitsHyphens ==
    [][Saves =>
        /\ \A t \in { pendingForm.city, pendingForm.country } :
                \A i \in 1..Len(toSlug(Trim(t))) :
                    toSlug(Trim(t))[i] \in Letters \cup Digits \cup { HYPHEN }
        /\ actionState'.filename = LocalFilename(pendingForm)]_vars

-----------------------------------------------------------------------------
(* Picker properties: pages of a gather *)

\* The request in flight of the current gather is answered with a page without
\* results.
EmptyPageAnswered ==
    /\ gather.active
    /\ \E r \in CurrentAnswers : r.ok /\ r.hits = <<>> /\ GatherResponse(r)

\* C25: a gather stops as soon as a fetched page has no result, without a
\* further request: it ends in that step with what it had collected, having
\* requested one page more than before; after a first page whose results were
\* all seen and an empty second page, two pages were requested and the batch is
\* empty.
C25_EmptyPageStopsGather ==
    [][EmptyPageAnswered =>
        /\ ~gather'.active
        /\ ~loading'
        /\ images' = gather.collected
        /\ lastDone' = [kind |-> "applied", start |-> pageNum,
                        pages |-> gather.attempts + 1]]_vars

\* A show-more gather read a first page with results, all of them seen, then an
\* empty page, and ended with an empty batch after two requests.
C25_Witness ==
    /\ lastDone = [kind |-> "applied", start |-> 2, pages |-> 2]
    /\ images = <<>>
    /\ seenIdsRef # {}
    /\ ~loading

\* The request in flight of a gather that started at page start and has been
\* answered n times: for the page start + n, with 18 results per page.
NextPageRequested(g, start, n) ==
    /\ g.page = start + n
    /\ g.attempts = n
    /\ SearchRequest(<<>>, g.page, "pixabay").per_page = 18
    /\ SearchRequest(<<>>, g.page, "pixabay").page = start + n

\* C26: within one gather the pages requested are the start page and then each
\* following page, one request per page at 18 results per page: a gather,
\* current or superseded, that goes on after an answer requests the page after
\* the one answered, whatever the seen ids are.
C26_PagesInOrderOncePerGather ==
    [][/\ gather.active =>
            \A r \in CurrentAnswers :
                (GatherResponse(r) /\ gather'.active) =>
                    /\ gather'.query = gather.query
                    /\ gather'.source = gather.source
                    /\ NextPageRequested(gather', StartPage(gather),
                                         gather.attempts + 1)
       /\ \A i \in 1..Len(stale) : \A r \in Responses :
                (StaleResponse(i, r) /\ Len(stale') = Len(stale)) =>
                    NextPageRequested(stale'[i], StartPage(stale[i]),
                                      stale[i].attempts + 1)]_vars

\* A show-more gather has read two pages that brought nothing new, since all
\* their results were seen, and has requested a third.
C26_Witness ==
    /\ gather.active
    /\ seenIdsRef # {}
    /\ gather.collected = <<>>
    /\ gather.attempts = 2
    /\ gather.page = pageNum + 2

-----------------------------------------------------------------------------
(* Picker properties: one gather at a time *)

\* C27: at most one gather issues search requests: a superseded gather sends no
\* further request, so the answer to the request it had in flight is its end.
C27_SupersededGatherSendsNoRequest ==
    [][\A i \in 1..Len(stale) : \A r \in Responses :
            StaleResponse(i, r) => Len(stale') < Len(stale)]_vars

\* What holds instead: a superseded gather changes nothing the component shows.
SupersededGatherChangesNothing ==
    [][\A i \in 1..Len(stale) : \A r \in Responses :
            StaleResponse(i, r) =>
                UNCHANGED <<images, seenIdsRef, loading, refreshing, pageNum,
                            gather>>]_vars

-----------------------------------------------------------------------------
(* Picker properties: the record of a pending persist *)

\* The form in flight is that of the current record.
FormOfCurrentRecord ==
    /\ ~isDone
    /\ pendingForm.city = selectedLocation.city
    /\ pendingForm.country = selectedLocation.country

\* While a persist is pending no operator action is taken, and the record,
\* provider, page cursor and filter stay; the outcome comes back to the record
\* the pick was made for.
PendingFreezesRecord ==
    [][isPending =>
        /\ FormOfCurrentRecord
        /\ isPending' => /\ ops' = ops
                         /\ UNCHANGED <<locationIndex, source, pageNum, startLetter,
                                        pendingForm>>]_vars

\* C28: while a persist is pending no operator action changes the current
\* record, provider, page cursor or filter; the outcome applies to the record
\* that was current when the pick was made, and a success advances from it.
C28_PendingFreezesRecordSuccessAdvances ==
    [][isPending =>
        /\ FormOfCurrentRecord
        /\ isPending' => /\ ops' = ops
                         /\ UNCHANGED <<locationIndex, source, pageNum, startLetter,
                                        pendingForm>>
        /\ PickSucceeds => locationIndex' = locationIndex + 1]_vars

-----------------------------------------------------------------------------
(* Picker properties: the seen-id set *)

\* The current gather ends well and its batch is applied.
BatchApplied ==
    /\ gather.active
    /\ \E r \in CurrentAnswers : r.ok /\ GatherResponse(r) /\ ~gather'.active

\* A superseded gather is answered.
SupersededAnswered ==
    \E i \in 1..Len(stale) : \E r \in Responses : StaleResponse(i, r)

\* The seen-id set is the union of the batches applied since the effect on
\* [query, source] last ran: an applied batch adds its ids and no other, a
\* failed or superseded gather adds none.
SeenIsUnionOfBatchesSinceReset ==
    [][/\ seenIdsRef' = shown'
       /\ BatchApplied => seenIdsRef' = seenIdsRef \cup IdsOf(images')
       /\ GatherFails => seenIdsRef' = seenIdsRef
       /\ SupersededAnswered => seenIdsRef' = seenIdsRef]_vars

\* C29: the seen-id set is the union of the ids of the batches applied for the
\* current record and provider since the last reset: it is empty when the
\* workflow has just moved to a record or changed provider, an applied batch
\* adds its ids and no other, a failed or superseded gather adds none.
C29_SeenIsUnionOfBatchesOfRecord ==
    [][/\ seenIdsRef' = shown'
       /\ MovesToRecord => seenIdsRef' = {}
       /\ source' # source => seenIdsRef' = {}
       /\ BatchApplied => seenIdsRef' = seenIdsRef \cup IdsOf(images')
       /\ GatherFails => seenIdsRef' = seenIdsRef
       /\ SupersededAnswered => seenIdsRef' = seenIdsRef]_vars

====
